---- MODULE Spec2Model ----
(***************************************************************************)
(* DictionaryImportController (settings page of the extension): the        *)
(* purge / import orchestration, its per-file import pipeline, the         *)
(* settings targets it builds and its error panel.                         *)
(*                                                                         *)
(* JavaScript runs one handler at a time; an async function gives up       *)
(* control only at an await.  Every action below is one such run: from an  *)
(* invocation, or from the completion of the awaited collaborator call,    *)
(* up to the next await (or to the end of the function).                   *)
(***************************************************************************)
EXTENDS Integers, Sequences, FiniteSets, TLC

VARIABLES
    modifying,        \* this._modifying
    ui,               \* spinner, buttons, purge notification, progress nodes
    errorContainer,   \* this._errorContainer: [lines, hidden]
    optionsFull,      \* the configuration held by the settings controller
    preventions,      \* settingsController: [acquired, released] token counts
    ops,              \* activations of _purgeDatabase / _importDictionaries
    event,            \* the handler run that produced this state
    client            \* the content-script Client (ext/client.js)

vars == <<modifying, ui, errorContainer, optionsFull, preventions, ops, event, client>>

(***************************************************************************)
(* Bounds of the model.                                                    *)
(***************************************************************************)
MaxOps == 2        \* operations that pass the busy check in one behaviour
MaxFiles == 2      \* files handed to one _importDictionaries call
MaxProfiles == 2   \* profiles in the configuration
MaxActivations == 2 \* activation records kept (what the code allows is 1)
MaxErrors == 3     \* errors in a list handed to _showErrors on its own
MaxProgress == 2   \* onProgress reports an importer makes for one file
MaxPending == 2    \* findTerm / renderTemplate callbacks of the Client in flight

Slots == 1..MaxActivations
Titles == {"A", "B"}
\* The k-th file of a file list: its name and the title of the dictionary
\* its archive holds.
File(k) == [name |-> "f" \o ToString(k), title |-> IF k % 2 = 1 THEN "A" ELSE "B"]

(***************************************************************************)
(* Errors.  An error is modelled by its toString() text, a sequence of     *)
(* text chunks, so that String.includes is a search for a chunk sequence.  *)
(***************************************************************************)
MutationMatch == <<"A mutation operation was attempted on a database that did not allow mutations.">>
MutationMessage == <<"Access to IndexedDB appears to be restricted. Firefox seems to require that the history preference is set to \"Remember history\" before IndexedDB use of any kind is allowed.">>
UnrelatedMatch == <<"The operation failed for reasons unrelated to the database itself and not covered by any other error code.">>
UnrelatedMessage == <<"Unable to access IndexedDB due to a possibly corrupt user profile. Try using the \"Refresh Firefox\" feature to reset your user profile.">>

errorToStringOverrides ==
    << <<MutationMatch, MutationMessage>>, <<UnrelatedMatch, UnrelatedMessage>> >>

ErrPurge == <<"Error: ", "purge transport failed">>
ErrOptions == <<"Error: ", "settings transport failed">>
ErrPrepare == <<"InvalidStateError: ">> \o MutationMatch
ErrRead == <<"NotReadableError: ", "file could not be read">>
ErrArchive == <<"Error: ", "No dictionary index found in archive">>
ErrTarget == <<"Error: ", "target could not be set">>
ErrEntry == <<"Error: ", "bad entry">>
ErrReadOnly == <<"ReadOnlyError: ">> \o MutationMatch

\* The errors lists an importer result carries.
ImporterErrorLists == {<<>>, <<ErrEntry>>}

\* The (total, current) pairs an importer hands to onProgress: nothing done
\* yet, a third done (not a whole percent), all done.  updateProgress takes
\* them in any order and any number of times.
ProgressReports == {<<1, 0>>, <<3, 1>>, <<1, 1>>}

Includes(text, match) ==
    \E k \in 1..(Len(text) - Len(match) + 1) :
        SubSeq(text, k, k + Len(match) - 1) = match

RECURSIVE ErrorToStringFrom(_, _)
ErrorToStringFrom(error, k) ==
    IF k > Len(errorToStringOverrides) THEN error
    ELSE IF Includes(error, errorToStringOverrides[k][1])
         THEN errorToStringOverrides[k][2]
         ELSE ErrorToStringFrom(error, k + 1)

ErrorToString(error) == ErrorToStringFrom(error, 1)

(***************************************************************************)
(* _showErrors: the Map of display string -> count keeps the order of      *)
(* first insertion; one <p> per entry is appended to the container.        *)
(***************************************************************************)
RECURSIVE UniqueErrors(_, _, _)
UniqueErrors(errors, k, acc) ==
    IF k > Len(errors) THEN acc
    ELSE LET errorString == ErrorToString(errors[k])
             at == {j \in 1..Len(acc) : acc[j].text = errorString}
         IN IF at = {}
            THEN UniqueErrors(errors, k + 1,
                              Append(acc, [text |-> errorString, count |-> 1]))
            ELSE UniqueErrors(errors, k + 1,
                              [j \in 1..Len(acc) |->
                                  IF j \in at
                                  THEN [acc[j] EXCEPT !.count = @ + 1]
                                  ELSE acc[j]])

FragmentCountAlways(errors) ==
    LET u == UniqueErrors(errors, 1, <<>>)
    IN [j \in 1..Len(u) |-> [text |-> u[j].text, em |-> u[j].count]]

\* One paragraph per Map entry; em is the "(count)" suffix, 0 when absent.
Fragment(errors) ==
    LET u == UniqueErrors(errors, 1, <<>>)
    IN [j \in 1..Len(u) |->
           [text |-> u[j].text, em |-> IF u[j].count > 1 THEN u[j].count ELSE 0]]

ShowErrorsReplacing(container, errors) ==
    [lines |-> Fragment(errors), hidden |-> FALSE]

\* lines 257-258: the fragment is appended to what the container holds
ShowErrors(container, errors) ==
    [lines |-> container.lines \o Fragment(errors), hidden |-> FALSE]

HideErrors == [lines |-> <<>>, hidden |-> TRUE]

\* yomichan.logError is called once for every error handed to _showErrors.
LogCalls(errors) == [k \in 1..Len(errors) |-> <<"logError", errors[k]>>]

(***************************************************************************)
(* Settings targets.  A path is kept as the array handed to                *)
(* ObjectPropertyAccessor.getPathString; profile indices start at 0.       *)
(***************************************************************************)
EmptyMapping == [t \in {} |-> 0]

CreateDictionaryOptionsWrongPriority ==
    [priority |-> 1, enabled |-> TRUE, allowSecondarySearches |-> FALSE]

CreateDictionaryOptions ==
    [priority |-> 0, enabled |-> TRUE, allowSecondarySearches |-> FALSE]

ProfileCount(snapshot) == Cardinality(DOMAIN snapshot.profiles)

SetsMainDictionaryAlways(sequenced, options) == sequenced

\* line 203: sequenced && options.general.mainDictionary === ''
SetsMainDictionary(sequenced, options) ==
    sequenced /\ options.general.mainDictionary = ""

RECURSIVE AddDictionaryTargetsFrom(_, _, _, _)
AddDictionaryTargetsFrom(snapshot, sequenced, title, i) ==
    IF i >= ProfileCount(snapshot) THEN <<>>
    ELSE LET options == snapshot.profiles[i].options
             value == CreateDictionaryOptions
             path1 == <<"profiles", i, "options", "dictionaries", title>>
             path2 == <<"profiles", i, "options", "general", "mainDictionary">>
         IN <<[action |-> "set", path |-> path1, value |-> value]>>
            \o (IF SetsMainDictionary(sequenced, options)
                THEN <<[action |-> "set", path |-> path2, value |-> title]>>
                ELSE <<>>)
            \o AddDictionaryTargetsFrom(snapshot, sequenced, title, i + 1)

\* The targets _addDictionarySettings hands to _modifyGlobalSettings.
AddDictionaryTargets(snapshot, sequenced, title) ==
    AddDictionaryTargetsFrom(snapshot, sequenced, title, 0)

ClearProfileTargetsDictionariesOnly(i) ==
    <<[action |-> "set", path |-> <<"profiles", i, "options", "dictionaries">>,
       value |-> EmptyMapping]>>

\* lines 216-219: the two targets pushed for profile i
ClearProfileTargets(i) ==
    <<[action |-> "set", path |-> <<"profiles", i, "options", "dictionaries">>,
       value |-> EmptyMapping],
      [action |-> "set", path |-> <<"profiles", i, "options", "general", "mainDictionary">>,
       value |-> ""]>>

RECURSIVE ClearDictionaryTargetsFrom(_, _)
ClearDictionaryTargetsFrom(snapshot, i) ==
    IF i >= ProfileCount(snapshot) THEN <<>>
    ELSE ClearProfileTargets(i) \o ClearDictionaryTargetsFrom(snapshot, i + 1)

\* The targets _clearDictionarySettings hands to _modifyGlobalSettings.
ClearDictionaryTargets(snapshot) == ClearDictionaryTargetsFrom(snapshot, 0)

(***************************************************************************)
(* The settings transport (settingsController.modifyGlobalSettings): one   *)
(* result per target, in order; a target whose result carries an error is  *)
(* not written, the others are.                                            *)
(***************************************************************************)
SetPath(config, path, value) ==
    IF Len(path) = 4
    THEN [config EXCEPT !.profiles[path[2]].options.dictionaries = value]
    ELSE IF path[4] = "general"
    THEN [config EXCEPT !.profiles[path[2]].options.general.mainDictionary = value]
    ELSE LET d == config.profiles[path[2]].options.dictionaries
         IN [config EXCEPT !.profiles[path[2]].options.dictionaries =
                [t \in (DOMAIN d) \cup {path[5]} |->
                    IF t = path[5] THEN value ELSE d[t]]]

RECURSIVE ApplyTargets(_, _, _, _)
ApplyTargets(config, targets, failed, k) ==
    IF k > Len(targets) THEN config
    ELSE ApplyTargets(IF k \in failed THEN config
                      ELSE SetPath(config, targets[k].path, targets[k].value),
                      targets, failed, k + 1)

TargetErrorJson == [name |-> "Error", message |-> "target could not be set"]

TransportResults(targets, failed) ==
    [k \in 1..Len(targets) |->
        IF k \in failed THEN [error |-> TargetErrorJson] ELSE [result |-> TRUE]]

\* jsonToError: the error object rebuilt from its serialized form.
JsonToError(json) == <<json.name \o ": ", json.message>>

\* _modifyGlobalSettings, lines 316-322: the errors of the results, in order.
RECURSIVE ResultErrors(_, _)
ResultErrors(results, k) ==
    IF k > Len(results) THEN <<>>
    ELSE (IF "error" \in DOMAIN results[k]
          THEN <<JsonToError(results[k].error)>> ELSE <<>>)
         \o ResultErrors(results, k + 1)

\* The sets of failing targets tried: none, and the last target alone.
FailedSets(targets) ==
    {{}, {k \in 1..Len(targets) : k = Len(targets)}}

(***************************************************************************)
(* State.                                                                  *)
(***************************************************************************)
IdleOp ==
    [kind |-> "none", pc |-> "idle", files |-> <<>>, i |-> 0,
     importDetails |-> [prefixWildcardsSupported |-> FALSE],
     targets |-> <<>>, result |-> [sequenced |-> FALSE, title |-> ""],
     errors |-> <<>>, settingsErrors |-> <<>>, caught |-> <<>>,
     progressStats |-> 0, opened |-> 0, closed |-> 0, trace |-> <<>>]

\* The text ranges getRangeAtCursor can return; 0 stands for null.
Ranges == {1, 2}

\* client.js lines 21-33: the Client after its constructor.  The popup node
\* is new, so it has no inline visibility yet; getState has been called and
\* its callback is outstanding; findTerm[r] and renderTemplate[r] count the
\* outstanding callbacks that hold range r.
NewClient ==
    [enabled |-> FALSE, visibility |-> "", selection |-> 0, html |-> 0,
     getState |-> TRUE,
     findTerm |-> [r \in Ranges |-> 0],
     renderTemplate |-> [r \in Ranges |-> 0]]

\* line 155: progressBar.style.width = '0', a plain 0 with no unit; the bar
\* of the page starts out the same
ZeroWidth == [num |-> 0, den |-> 1, unit |-> ""]

\* line 148: `${percent}%`
PercentWidth(percent) == [num |-> percent.num, den |-> percent.den, unit |-> "%"]

NewProfile ==
    [options |-> [general |-> [mainDictionary |-> ""],
                  dictionaries |-> EmptyMapping]]

Init ==
    /\ modifying = FALSE
    /\ ui = [spinnerHidden |-> TRUE, disabled |-> FALSE,
             purgeNotificationHidden |-> TRUE, progressHidden |-> TRUE,
             importInfoHidden |-> TRUE, importInfoText |-> <<>>, barWidth |-> ZeroWidth]
    /\ errorContainer = HideErrors
    /\ \E P \in 1..MaxProfiles :
          optionsFull =
              [global |-> [database |-> [prefixWildcardsSupported |-> FALSE]],
               profiles |-> [i \in 0..(P - 1) |-> NewProfile]]
    /\ preventions = [acquired |-> 0, released |-> 0]
    /\ ops = [s \in Slots |-> IdleOp]
    /\ event = "constructor"
    /\ client = NewClient

InFlight == {s \in Slots : ops[s].pc \notin {"idle", "done"}}

FreeSlots == Slots \ InFlight

\* The record of a new activation goes to the lowest free slot.
FreeSlot == CHOOSE s \in FreeSlots : \A r \in FreeSlots : s <= r

PurgeEarlyReturnNever == FALSE

\* line 96: if (this._modifying) { return; }
PurgeEarlyReturn == modifying

ImportEarlyReturnNever == FALSE

\* line 126: if (this._modifying) { return; }
ImportEarlyReturn == modifying

\* settingsController.preventPageExit() and the end() of the token it returns
PreventPageExit(p) == [p EXCEPT !.acquired = @ + 1]

PreventionEndSkipped(p) == p

PreventionEnd(p) == [p EXCEPT !.released = @ + 1]

\* _setButtonsEnabled: node.disabled = !value
SetButtonsEnabled(u, value) == [u EXCEPT !.disabled = ~value]

SetSpinnerVisibleInverted(u, visible) == [u EXCEPT !.spinnerHidden = visible]

\* _setSpinnerVisible
SetSpinnerVisible(u, visible) == [u EXCEPT !.spinnerHidden = ~visible]

CleanupModifyingStaysSet == TRUE

\* lines 121 and 170: the value the finally block hands to _setModifying
CleanupModifying == FALSE

DatabaseCloseSkipped(op) == op

DatabaseCloseUnlessErrors(op) ==
    IF Len(op.errors) > 0 THEN op
    ELSE [op EXCEPT !.closed = @ + 1, !.trace = Append(@, <<"close">>)]

\* line 189: dictionaryDatabase.close()
DatabaseClose(op) ==
    [op EXCEPT !.closed = @ + 1, !.trace = Append(@, <<"close">>)]

RECURSIVE Gcd(_, _)
Gcd(a, b) == IF b = 0 THEN a ELSE Gcd(b, a % b)

\* lines 147-148: percent = current / total * 100.0, the number written into
\* progressBar.style.width before the "%".  It is not rounded: the model
\* keeps it as the fraction num / den in lowest terms (33.33...% is 100 / 3).
\* A total of 0 gives NaN for current 0 (0 / 0) and Infinity otherwise
\* (1 / 0).
Percent(total, current) ==
    IF total = 0
    THEN [num |-> IF current = 0 THEN 0 ELSE 1, den |-> 0]
    ELSE LET g == Gcd(current * 100, total)
         IN [num |-> (current * 100) \div g, den |-> total \div g]

(***************************************************************************)
(* The shared ends of the two operations.  `op` is the activation record   *)
(* as the run has left it, `container` the error container likewise.       *)
(***************************************************************************)
\* lines 116-122
PurgeFinally(s, op, container) ==
    /\ preventions' = PreventionEnd(preventions)
    /\ modifying' = CleanupModifying
    /\ ui' = SetButtonsEnabled(
                 SetSpinnerVisible([ui EXCEPT !.purgeNotificationHidden = TRUE], FALSE),
                 ~CleanupModifying)
    /\ errorContainer' = container
    /\ ops' = [ops EXCEPT ![s] =
                 [op EXCEPT !.pc = "done",
                            !.trace = @ \o <<<<"prevention.end">>, <<"updateStats">>>>]]

PurgeCatchSilent(s, op, error) ==
    PurgeFinally(s, [op EXCEPT !.caught = <<error>>], errorContainer)

\* lines 114-115, then the finally block
PurgeCatch(s, op, error) ==
    PurgeFinally(s, [op EXCEPT !.caught = <<error>>,
                               !.trace = @ \o LogCalls(<<error>>)],
                 ShowErrors(errorContainer, <<error>>))

\* lines 164-171
ImportFinally(s, op, container) ==
    /\ preventions' = PreventionEnd(preventions)
    /\ modifying' = CleanupModifying
    /\ ui' = SetButtonsEnabled(
                 SetSpinnerVisible([ui EXCEPT !.progressHidden = TRUE,
                                              !.importInfoText = <<>>,
                                              !.importInfoHidden = TRUE], FALSE),
                 ~CleanupModifying)
    /\ errorContainer' = container
    /\ ops' = [ops EXCEPT ![s] =
                 [op EXCEPT !.pc = "done",
                            !.trace = Append(@, <<"prevention.end">>)]]

\* lines 162-163, then the finally block
ImportCatch(s, op, error) ==
    ImportFinally(s, [op EXCEPT !.caught = <<error>>,
                                !.trace = @ \o LogCalls(<<error>>)],
                  ShowErrors(errorContainer, <<error>>))

NextIndexSkipping(i) == i + 2

\* line 153: ++i
NextIndex(i) == i + 1

\* lines 153-161: the head of the for loop with i = op.i, up to the await of
\* dictionaryDatabase.prepare() inside _importDictionary
ImportLoop(s, op, container) ==
    IF op.i < Len(op.files)
    THEN /\ ops' = [ops EXCEPT ![s] =
                      [op EXCEPT !.pc = "prepare", !.progressStats = 0,
                                 !.trace = @ \o <<<<"_importDictionary", op.i, op.files[op.i + 1].name>>,
                                                  <<"prepare">>>>]]
         /\ ui' = [ui EXCEPT !.barWidth = ZeroWidth,
                             !.importInfoHidden =
                                 IF Len(op.files) > 1 THEN FALSE ELSE @,
                             !.importInfoText =
                                 IF Len(op.files) > 1
                                 THEN <<op.i + 1, Len(op.files)>> ELSE @]
         /\ errorContainer' = container
         /\ UNCHANGED <<modifying, preventions>>
    ELSE ImportFinally(s, op, container)

(***************************************************************************)
(* _purgeDatabase                                                          *)
(***************************************************************************)
\* lines 95-108: the call, up to the await of api.purgeDatabase()
PurgeDatabase ==
    \* the settings page runs no content script
    /\ UNCHANGED client
    /\ IF PurgeEarlyReturn
       THEN /\ event' = "_purgeDatabase:return"
            /\ UNCHANGED <<modifying, ui, errorContainer, optionsFull, preventions, ops>>
       ELSE \/ /\ FreeSlots # {}
               /\ preventions.acquired < MaxOps
               /\ preventions' = PreventPageExit(preventions)
               /\ modifying' = TRUE
               /\ ui' = [SetSpinnerVisible(SetButtonsEnabled(ui, FALSE), TRUE)
                            EXCEPT !.purgeNotificationHidden = FALSE]
               /\ errorContainer' = HideErrors
               /\ ops' = [ops EXCEPT ![FreeSlot] =
                            [IdleOp EXCEPT !.kind = "purge", !.pc = "purgeDatabase",
                                           !.trace = <<<<"preventPageExit">>, <<"purgeDatabase">>>>]]
               /\ event' = "_purgeDatabase:start"
               /\ UNCHANGED optionsFull
            \* line 100 is outside the try: when preventPageExit() throws, no
            \* handler of the function catches it and the returned promise rejects
            \/ /\ event' = "_purgeDatabase:rejected"
               /\ UNCHANGED <<modifying, ui, errorContainer, optionsFull, preventions, ops>>

\* api.purgeDatabase() settles; line 109 up to the await of getOptionsFull()
PurgeDatabaseSettled(s) ==
    /\ ops[s].pc = "purgeDatabase"
    /\ \E ok \in BOOLEAN :
          IF ok
          THEN /\ ops' = [ops EXCEPT ![s].pc = "clear:getOptionsFull",
                                     ![s].trace = Append(@, <<"getOptionsFull">>)]
               /\ event' = "purgeDatabase:resolved"
               /\ UNCHANGED <<modifying, ui, errorContainer, preventions>>
          ELSE /\ PurgeCatch(s, ops[s], ErrPurge)
               /\ event' = "purgeDatabase:rejected"
    /\ UNCHANGED optionsFull
    /\ UNCHANGED client

\* lines 212-221: getOptionsFull() settles; the targets are built and handed on
ClearOptionsSettled(s) ==
    /\ ops[s].pc = "clear:getOptionsFull"
    /\ \E ok \in BOOLEAN :
          IF ok
          THEN /\ ops' = [ops EXCEPT ![s].pc = "clear:modifyGlobalSettings",
                                     ![s].targets = ClearDictionaryTargets(optionsFull),
                                     ![s].trace = Append(@, <<"modifyGlobalSettings">>)]
               /\ event' = "clear:getOptionsFull:resolved"
               /\ UNCHANGED <<modifying, ui, errorContainer, preventions>>
          ELSE /\ PurgeCatch(s, ops[s], ErrOptions)
               /\ event' = "clear:getOptionsFull:rejected"
    /\ UNCHANGED optionsFull
    /\ UNCHANGED client

\* modifyGlobalSettings() settles; lines 316-322, 111-113, then the finally
ClearModifySettled(s) ==
    /\ ops[s].pc = "clear:modifyGlobalSettings"
    /\ \/ \E failed \in FailedSets(ops[s].targets) :
             LET errors == ResultErrors(TransportResults(ops[s].targets, failed), 1)
             IN /\ optionsFull' = ApplyTargets(optionsFull, ops[s].targets, failed, 1)
                /\ IF Len(errors) > 0
                   THEN PurgeFinally(s, [ops[s] EXCEPT !.settingsErrors = errors,
                                                       !.trace = @ \o LogCalls(errors)],
                                     ShowErrors(errorContainer, errors))
                   ELSE PurgeFinally(s, [ops[s] EXCEPT !.settingsErrors = errors],
                                     errorContainer)
                /\ event' = "clear:modifyGlobalSettings:resolved"
       \/ /\ PurgeCatch(s, ops[s], ErrOptions)
          /\ event' = "clear:modifyGlobalSettings:rejected"
          /\ UNCHANGED optionsFull
    /\ UNCHANGED client

(***************************************************************************)
(* _importDictionaries and _importDictionary                               *)
(***************************************************************************)
\* The file lists a change event delivers: f1, ..., fn for n up to MaxFiles.
FileLists == {[k \in 1..n |-> File(k)] : n \in 0..MaxFiles}

\* lines 125-141: the call, up to the await of getOptionsFull()
ImportDictionaries ==
    \* the settings page runs no content script
    /\ UNCHANGED client
    /\ \E files \in FileLists :
          IF ImportEarlyReturn
          THEN /\ event' = "_importDictionaries:return"
               /\ UNCHANGED <<modifying, ui, errorContainer, optionsFull, preventions, ops>>
          ELSE \/ /\ FreeSlots # {}
                  /\ preventions.acquired < MaxOps
                  /\ preventions' = PreventPageExit(preventions)
                  /\ modifying' = TRUE
                  /\ ui' = [SetSpinnerVisible(SetButtonsEnabled(ui, FALSE), TRUE)
                               EXCEPT !.progressHidden = FALSE]
                  /\ errorContainer' = HideErrors
                  /\ ops' = [ops EXCEPT ![FreeSlot] =
                               [IdleOp EXCEPT !.kind = "import", !.pc = "getOptionsFull",
                                              !.files = files,
                                              !.trace = <<<<"preventPageExit">>, <<"getOptionsFull">>>>]]
                  /\ event' = "_importDictionaries:start"
                  /\ UNCHANGED optionsFull
               \* line 133 is outside the try: when preventPageExit() throws, the
               \* promise returned by the function rejects
               \/ /\ event' = "_importDictionaries:rejected"
                  /\ UNCHANGED <<modifying, ui, errorContainer, optionsFull, preventions, ops>>

\* getOptionsFull() settles; lines 142-160 for the first file
ImportOptionsSettled(s) ==
    /\ ops[s].pc = "getOptionsFull"
    /\ \E ok \in BOOLEAN :
          IF ok
          THEN /\ ImportLoop(s, [ops[s] EXCEPT
                                    !.importDetails = [prefixWildcardsSupported |->
                                        optionsFull.global.database.prefixWildcardsSupported],
                                    !.i = 0],
                             errorContainer)
               /\ event' = "getOptionsFull:resolved"
          ELSE /\ ImportCatch(s, ops[s], ErrOptions)
               /\ event' = "getOptionsFull:rejected"
    /\ UNCHANGED optionsFull
    /\ UNCHANGED client

\* lines 308-312 and 175-178: prepare() settles; on failure nothing was opened
PrepareSettled(s) ==
    /\ ops[s].pc = "prepare"
    /\ \E ok \in BOOLEAN :
          IF ok
          THEN /\ ops' = [ops EXCEPT ![s].pc = "readFile",
                                     ![s].opened = @ + 1,
                                     ![s].trace = Append(@, <<"readFile", ops[s].files[ops[s].i + 1].name>>)]
               /\ event' = "prepare:resolved"
               /\ UNCHANGED <<modifying, ui, errorContainer, preventions>>
          ELSE /\ ImportCatch(s, ops[s], ErrPrepare)
               /\ event' = "prepare:rejected"
    /\ UNCHANGED optionsFull
    /\ UNCHANGED client

\* lines 178-179: the file read settles
ReadFileSettled(s) ==
    /\ ops[s].pc = "readFile"
    /\ \E ok \in BOOLEAN :
          IF ok
          THEN /\ ops' = [ops EXCEPT ![s].pc = "importDictionary",
                                     ![s].trace = Append(@, <<"importDictionary">>)]
               /\ event' = "readFile:resolved"
               /\ UNCHANGED <<modifying, ui, errorContainer, preventions>>
          ELSE /\ ImportCatch(s, DatabaseClose(ops[s]), ErrRead)
               /\ event' = "readFile:rejected"
    /\ UNCHANGED optionsFull
    /\ UNCHANGED client

\* lines 146-150: the importer calls onProgress while importDictionary() is
\* pending; every call sets the width of the bar and calls updateStats().
\* progressStats counts the updateStats() calls made for the file being
\* imported
UpdateProgress(s) ==
    /\ ops[s].pc = "importDictionary"
    /\ ops[s].progressStats < MaxProgress
    /\ \E report \in ProgressReports :
          ui' = [ui EXCEPT !.barWidth = PercentWidth(Percent(report[1], report[2]))]
    /\ ops' = [ops EXCEPT ![s].progressStats = @ + 1]
    /\ event' = "updateProgress"
    /\ UNCHANGED <<modifying, errorContainer, optionsFull, preventions>>
    /\ UNCHANGED client

AfterImportNoNotification == <<<<"getOptionsFull">>>>

\* lines 180-181 and 194: the calls made once importDictionary() has returned,
\* up to the await of getOptionsFull() inside _addDictionarySettings
AfterImport ==
    <<<<"triggerDatabaseUpdated", "dictionary", "import">>, <<"getOptionsFull">>>>

\* lines 179-181 and 194: importDictionary() settles
ImportDictionarySettled(s) ==
    /\ ops[s].pc = "importDictionary"
    /\ \/ \E sequenced \in BOOLEAN, errors \in ImporterErrorLists :
             /\ ops' = [ops EXCEPT ![s].pc = "add:getOptionsFull",
                                   ![s].result = [sequenced |-> sequenced,
                                                  title |-> ops[s].files[ops[s].i + 1].title],
                                   ![s].errors = errors,
                                   ![s].trace = @ \o AfterImport]
             /\ event' = "importDictionary:resolved"
             /\ UNCHANGED <<modifying, ui, errorContainer, preventions>>
       \/ /\ ImportCatch(s, DatabaseClose(ops[s]), ErrArchive)
          /\ event' = "importDictionary:rejected"
    /\ UNCHANGED optionsFull
    /\ UNCHANGED client

\* lines 194-208: getOptionsFull() settles inside _addDictionarySettings
AddOptionsSettled(s) ==
    /\ ops[s].pc = "add:getOptionsFull"
    /\ \E ok \in BOOLEAN :
          IF ok
          THEN /\ ops' = [ops EXCEPT ![s].pc = "add:modifyGlobalSettings",
                                     ![s].targets = AddDictionaryTargets(optionsFull,
                                                        ops[s].result.sequenced, ops[s].result.title),
                                     ![s].trace = Append(@, <<"modifyGlobalSettings">>)]
               /\ event' = "add:getOptionsFull:resolved"
               /\ UNCHANGED <<modifying, ui, errorContainer, preventions>>
          ELSE /\ ImportCatch(s, DatabaseClose(ops[s]), ErrOptions)
               /\ event' = "add:getOptionsFull:rejected"
    /\ UNCHANGED optionsFull
    /\ UNCHANGED client

SummaryErrorAlwaysPlural(n) ==
    <<"Error: ",
      "Dictionary may not have been imported properly: " \o ToString(n)
          \o " errors reported.">>

\* line 185
SummaryError(n) ==
    <<"Error: ",
      "Dictionary may not have been imported properly: " \o ToString(n)
          \o " error" \o (IF n = 1 THEN "" ELSE "s") \o " reported.">>

\* lines 183-187: what _importDictionary shows for one file
AllErrors(errors, errors2) ==
    IF Len(errors) > 0
    THEN Append(errors \o errors2, SummaryError(Len(errors \o errors2)))
    ELSE <<>>

\* modifyGlobalSettings() settles; lines 316-322, 183-190, then the next file
AddModifySettled(s) ==
    /\ ops[s].pc = "add:modifyGlobalSettings"
    /\ \/ \E failed \in FailedSets(ops[s].targets) :
             LET errors2 == ResultErrors(TransportResults(ops[s].targets, failed), 1)
                 allErrors == AllErrors(ops[s].errors, errors2)
                 shown == [ops[s] EXCEPT !.settingsErrors = errors2,
                                         !.trace = @ \o LogCalls(allErrors)]
             IN /\ optionsFull' = ApplyTargets(optionsFull, ops[s].targets, failed, 1)
                /\ ImportLoop(s, [DatabaseClose(shown) EXCEPT !.i = NextIndex(@)],
                              IF Len(allErrors) > 0
                              THEN ShowErrors(errorContainer, allErrors)
                              ELSE errorContainer)
                /\ event' = "add:modifyGlobalSettings:resolved"
       \/ /\ ImportCatch(s, DatabaseClose(ops[s]), ErrOptions)
          /\ event' = "add:modifyGlobalSettings:rejected"
          /\ UNCHANGED optionsFull
    /\ UNCHANGED client

(***************************************************************************)
(* Specification.                                                          *)
(***************************************************************************)
Settled(s) ==
    \/ PurgeDatabaseSettled(s)
    \/ ClearOptionsSettled(s)
    \/ ClearModifySettled(s)
    \/ ImportOptionsSettled(s)
    \/ PrepareSettled(s)
    \/ ReadFileSettled(s)
    \/ ImportDictionarySettled(s)
    \/ AddOptionsSettled(s)
    \/ AddModifySettled(s)

Next ==
    \/ PurgeDatabase
    \/ ImportDictionaries
    \/ \E s \in Slots : Settled(s)
    \/ \E s \in Slots : UpdateProgress(s)

Spec == Init /\ [][Next]_vars

\* Every awaited collaborator call eventually resolves or rejects.
FairSpec == Spec /\ \A s \in Slots : WF_vars(Settled(s))

TypeOK ==
    /\ modifying \in BOOLEAN
    /\ preventions.acquired \in 0..MaxOps
    /\ preventions.released \in 0..MaxOps
    /\ \A s \in Slots :
          /\ ops[s].kind \in {"none", "purge", "import"}
          /\ ops[s].result.title \in Titles \cup {""}
          /\ Len(ops[s].files) <= MaxFiles
    /\ Cardinality(DOMAIN optionsFull.profiles) \in 1..MaxProfiles

(***************************************************************************)
(* _showErrors on its own: the function is applied to every list of up to  *)
(* MaxErrors errors, on the cleared container of a fresh controller.       *)
(***************************************************************************)
\* The errors a list handed to _showErrors is made of: two with display
\* strings of their own, two that the first override maps to one string.
RenderErrors == {ErrEntry, ErrTarget, ErrPrepare, ErrReadOnly}

ErrorLists == UNION {[1..n -> RenderErrors] : n \in 0..MaxErrors}

\* lines 232-260: one call of _showErrors; the activation record keeps the
\* list handed over and the logError calls made
ShowErrorsCall ==
    /\ errorContainer.hidden
    /\ \E errors \in ErrorLists :
          /\ errorContainer' = ShowErrors(errorContainer, errors)
          /\ ops' = [ops EXCEPT ![1].errors = errors, ![1].trace = LogCalls(errors)]
    /\ event' = "_showErrors"
    /\ UNCHANGED <<modifying, ui, optionsFull, preventions>>
    /\ UNCHANGED client

\* lines 262-265: one call of _hideErrors
HideErrorsCall ==
    /\ ~errorContainer.hidden
    /\ errorContainer' = HideErrors
    /\ event' = "_hideErrors"
    /\ UNCHANGED <<modifying, ui, optionsFull, preventions, ops>>
    /\ UNCHANGED client

RenderNext == ShowErrorsCall \/ HideErrorsCall

RenderSpec == Init /\ [][RenderNext]_vars

(***************************************************************************)
(* The content-script Client (ext/client.js).  Its handlers run one at a   *)
(* time; findTerm and renderTemplate answer through callbacks that run as  *)
(* handlers of their own, in any order.                                    *)
(***************************************************************************)
controller == <<modifying, ui, errorContainer, optionsFull, preventions, ops>>

\* lines 84-89: hidePopup
HidePopup(c) == [c EXCEPT !.selection = 0, !.visibility = "hidden"]

\* lines 76-82: showPopup
ShowPopup(c, range) == [c EXCEPT !.selection = range, !.visibility = "visible"]

\* lines 91-95: setEnabled
SetEnabled(c, enabled) ==
    IF ~enabled THEN HidePopup([c EXCEPT !.enabled = enabled])
    ELSE [c EXCEPT !.enabled = enabled]

Requests == {"enabled", "disabled"}

Outstanding(c) ==
    LET n[R \in SUBSET Ranges] ==
            IF R = {} THEN 0
            ELSE LET r == CHOOSE x \in R : TRUE
                 IN c.findTerm[r] + c.renderTemplate[r] + n[R \ {r}]
    IN n[Ranges]

\* line 32: the callback of getState
GetStateCallback ==
    /\ client.getState
    /\ \E state \in Requests :
          client' = SetEnabled([client EXCEPT !.getState = FALSE], state = "enabled")
    /\ event' = "getState:callback"
    /\ UNCHANGED controller

\* line 27: a click on the body
OnClick ==
    /\ client' = HidePopup(client)
    /\ event' = "click"
    /\ UNCHANGED controller

\* lines 35-39: onKeyDown
OnKeyDown ==
    /\ \E keyCode \in {16, 65} :
          client' = IF keyCode = 16 THEN HidePopup(client) ELSE client
    /\ event' = "onKeyDown"
    /\ UNCHANGED controller

\* lines 41-69: onMouseMove, up to the call of findTerm; trigger is
\* e.shiftKey || e.which === 2, range what getRangeAtCursor returns, inside
\* whether e.clientX lies within the padded rectangle of the range
OnMouseMove ==
    /\ \E trigger \in BOOLEAN, range \in {0} \cup Ranges, inside \in BOOLEAN :
          IF ~client.enabled \/ ~trigger THEN client' = client
          ELSE IF range = 0 THEN client' = HidePopup(client)
          ELSE IF ~inside THEN client' = HidePopup(client)
          ELSE /\ Outstanding(client) < MaxPending
               /\ client' = [client EXCEPT !.findTerm[range] = @ + 1]
    /\ event' = "onMouseMove"
    /\ UNCHANGED controller

\* lines 58-68: the callback handed to findTerm
FindTermCallback ==
    /\ \E range \in Ranges :
          /\ client.findTerm[range] > 0
          /\ \E length \in {0, 1} :
                LET c == [client EXCEPT !.findTerm[range] = @ - 1]
                IN client' = IF length = 0 THEN HidePopup(c)
                             ELSE [c EXCEPT !.renderTemplate[range] = @ + 1]
    /\ event' = "findTerm:callback"
    /\ UNCHANGED controller

\* lines 63-66: the callback handed to renderTemplate
RenderTemplateCallback ==
    /\ \E range \in Ranges :
          /\ client.renderTemplate[range] > 0
          /\ client' = ShowPopup([client EXCEPT !.renderTemplate[range] = @ - 1,
                                                !.html = range], range)
    /\ event' = "renderTemplate:callback"
    /\ UNCHANGED controller

\* lines 71-74: onMessage
OnMessage ==
    /\ \E request \in Requests : client' = SetEnabled(client, request = "enabled")
    /\ event' = "onMessage"
    /\ UNCHANGED controller

ClientNext ==
    \/ GetStateCallback
    \/ OnClick
    \/ OnKeyDown
    \/ OnMouseMove
    \/ FindTermCallback
    \/ RenderTemplateCallback
    \/ OnMessage

ClientSpec == Init /\ [][ClientNext]_vars

(***************************************************************************)
(* Properties.                                                             *)
(***************************************************************************)
Invocations ==
    {"_purgeDatabase:return", "_purgeDatabase:start",
     "_importDictionaries:return", "_importDictionaries:start"}

\* C1: at most one purge-or-import body is in flight, that is, has passed
\* the busy check and not yet finished its finally block, in every state.
C1_SingleFlight == Cardinality(InFlight) <= 1

\* A purge was invoked while an import was suspended in the importer call.
C1_Witness ==
    /\ event = "_purgeDatabase:return"
    /\ \E s \in Slots : ops[s].kind = "import" /\ ops[s].pc = "importDictionary"

\* C2: an invocation of purge or importFiles made while busy is true changes
\* nothing: the busy flag, the error panel, the indicators, the configuration,
\* the exit-prevention tokens and the activations with their collaborator
\* calls all stay as they were, so nothing is started then or later.
C2_BusyInvocationIsNoOp ==
    [][(modifying /\ event' \in Invocations)
           => UNCHANGED <<modifying, ui, errorContainer, optionsFull, preventions, ops>>]_vars

\* An import was invoked while a purge was suspended in the settings write.
C2_Witness ==
    /\ event = "_importDictionaries:return"
    /\ modifying
    /\ \E s \in Slots : ops[s].kind = "purge" /\ ops[s].pc = "clear:modifyGlobalSettings"

\* The files handed to _importDictionary by an activation, in call order.
IsImportCall(e) == e[1] = "_importDictionary"

Pipeline(trace) == SelectSeq(trace, IsImportCall)

\* The calls _importDictionaries makes for files[1..k]: index and file name.
PipelineOf(files, k) == [j \in 1..k |-> <<"_importDictionary", j - 1, files[j].name>>]

ImportOneStates ==
    {"prepare", "readFile", "importDictionary", "add:getOptionsFull",
     "add:modifyGlobalSettings"}

Finished ==
    {"purgeDatabase:rejected", "clear:getOptionsFull:rejected",
     "clear:modifyGlobalSettings:resolved", "clear:modifyGlobalSettings:rejected",
     "getOptionsFull:resolved", "getOptionsFull:rejected", "prepare:rejected",
     "readFile:rejected", "importDictionary:rejected", "add:getOptionsFull:rejected",
     "add:modifyGlobalSettings:resolved", "add:modifyGlobalSettings:rejected"}

\* C3 as stated: once an importFiles call with N files has returned, the
\* per-file pipeline has been invoked exactly N times, in input order.
C3_ExactlyNInOrder ==
    \A s \in Slots :
        (ops[s].kind = "import" /\ ops[s].pc = "done")
            => Pipeline(ops[s].trace) = PipelineOf(ops[s].files, Len(ops[s].files))

\* C3 as amended: the pipeline is invoked once for each file of an initial
\* segment of the input, in input order and one at a time (the call for file
\* i is the last one made while file i is being imported); the segment is the
\* whole input when the call returns without having caught a failure; it is
\* empty when the first configuration read was rejected (the only failure
\* caught with no file handed on); when a failure was caught after a file
\* was handed on, the segment ends at the file being imported when it was
\* thrown: that file's call is the last one made, the failure is displayed
\* after it and only the end of the exit prevention follows.  Busy is true
\* while the call is in flight and false in the state it returns in.
C3_PrefixInOrder ==
    \A s \in Slots :
        ops[s].kind = "import" =>
            LET pipeline == Pipeline(ops[s].trace)
            IN /\ Len(pipeline) <= Len(ops[s].files)
               /\ pipeline = PipelineOf(ops[s].files, Len(pipeline))
               /\ ops[s].pc \in ImportOneStates
                     => /\ Len(pipeline) = ops[s].i + 1
                        /\ ops[s].opened + (IF ops[s].pc = "prepare" THEN 1 ELSE 0)
                               = ops[s].i + 1
               /\ (ops[s].pc = "done" /\ ops[s].caught = <<>>)
                     => Len(pipeline) = Len(ops[s].files)
               /\ (ops[s].pc = "done" /\ event = "getOptionsFull:rejected")
                     => /\ Len(pipeline) = 0
                        /\ ops[s].caught = <<ErrOptions>>
               /\ (ops[s].pc = "done" /\ ops[s].caught # <<>> /\ Len(pipeline) = 0)
                     => /\ ops[s].opened = 0
                        /\ \A k \in 3..Len(ops[s].trace) :
                              ops[s].trace[k][1] \in {"logError", "prevention.end"}
               /\ (ops[s].pc = "done" /\ ops[s].caught # <<>> /\ Len(pipeline) > 0)
                     => /\ Len(pipeline) = ops[s].i + 1
                        /\ ops[s].i < Len(ops[s].files)
                        /\ \E k \in 1..Len(ops[s].trace) :
                              /\ ops[s].trace[k][1] = "logError"
                              /\ ops[s].trace[k][2] = ops[s].caught[1]
                              /\ \A j \in 1..(k - 1) :
                                    ops[s].trace[j][1] = "_importDictionary"
                                        => ops[s].trace[j][2] <= ops[s].i
                              /\ \E j \in 1..(k - 1) :
                                    /\ ops[s].trace[j][1] = "_importDictionary"
                                    /\ ops[s].trace[j][2] = ops[s].i
                                    /\ ops[s].trace[j][3] = ops[s].files[ops[s].i + 1].name
                              /\ \A j \in (k + 1)..Len(ops[s].trace) :
                                    ops[s].trace[j][1] = "prevention.end"
               /\ s \in InFlight => modifying
               /\ (ops[s].pc = "done" /\ event \in Finished) => ~modifying

\* A call with two files has returned after both went through the pipeline.
C3_Witness ==
    \E s \in Slots :
        /\ ops[s].kind = "import" /\ ops[s].pc = "done"
        /\ Len(ops[s].files) = 2
        /\ Pipeline(ops[s].trace) = PipelineOf(ops[s].files, 2)
        /\ ~modifying

ImportErrors == {ErrPrepare, ErrRead, ErrArchive}

\* C4 as stated: when the import of one file fails (store open, file read or
\* importer throws), every remaining file of the batch is still handed to
\* the pipeline before the call returns.
C4_FailureDoesNotAbortBatch ==
    \A s \in Slots :
        (/\ ops[s].kind = "import" /\ ops[s].pc = "done"
         /\ ops[s].caught # <<>>
         /\ ops[s].caught[1] \in ImportErrors)
            => Len(Pipeline(ops[s].trace)) = Len(ops[s].files)

\* C5: whenever busy is true it eventually becomes false again, whatever the
\* collaborators answer, and with busy false no activation is left in flight,
\* so the next purge or import passes the busy check and finds a free record.
C5_BusyIsReleased ==
    /\ modifying ~> ~modifying
    /\ [](~modifying => InFlight = {})

\* busy is false again after an import whose importer call threw.
C5_Witness ==
    /\ event = "importDictionary:rejected"
    /\ ~modifying
    /\ \E s \in Slots : ops[s].pc = "done" /\ ops[s].caught = <<ErrArchive>>

Count(trace, name) == Cardinality({k \in 1..Len(trace) : trace[k][1] = name})

\* C6: every activation acquires exactly one exit-prevention token, holds it
\* at every await and has released it exactly once when it is done; so the
\* tokens held are as many as the activations in flight, and none is held
\* when busy is false.
C6_TokenReleasedOnce ==
    /\ preventions.acquired - preventions.released = Cardinality(InFlight)
    /\ ~modifying => preventions.acquired = preventions.released
    /\ \A s \in Slots :
          ops[s].pc # "idle" =>
              /\ Count(ops[s].trace, "preventPageExit") = 1
              /\ Count(ops[s].trace, "prevention.end")
                     = IF ops[s].pc = "done" THEN 1 ELSE 0

\* Two operations have ended, the second one by a failure of the purge call.
C6_Witness ==
    /\ event = "purgeDatabase:rejected"
    /\ preventions = [acquired |-> 2, released |-> 2]

\* The trace positions of the _importDictionary calls, and for the call at
\* p the positions up to the next call, given the positions of all calls.
Calls(op) == {p \in 1..Len(op.trace) : op.trace[p][1] = "_importDictionary"}

Segment(op, calls, p) ==
    LET later == {r \in calls : r > p}
    IN IF later = {} THEN p..Len(op.trace)
       ELSE p..((CHOOSE r \in later : \A r2 \in later : r <= r2) - 1)

Returned(op, calls, p) == op.pc = "done" \/ \E r \in calls : r > p

\* prepare() resolved for a call: the file read is what follows it.
Opened(op, segment) == \E q \in segment : op.trace[q][1] = "readFile"

Closes(op, segment) == Cardinality({q \in segment : op.trace[q][1] = "close"})

\* C7: for every _importDictionary call, close() has been called on its
\* handle exactly once when the call has returned, if the handle was opened,
\* and is not called before; when prepare() fails there is no close at all.
C7_HandleClosedOnce ==
    \A s \in Slots :
        /\ LET calls == Calls(ops[s])
           IN \A p \in calls :
                 LET segment == Segment(ops[s], calls, p)
                 IN Closes(ops[s], segment)
                        = IF Opened(ops[s], segment) /\ Returned(ops[s], calls, p)
                          THEN 1 ELSE 0
        /\ ops[s].closed = Count(ops[s].trace, "close")
        /\ ops[s].opened = Count(ops[s].trace, "readFile")

\* The second file's settings write threw after the first file went through.
C7_Witness ==
    /\ event = "add:modifyGlobalSettings:rejected"
    /\ \E s \in Slots :
          /\ ops[s].pc = "done" /\ ops[s].opened = 2 /\ ops[s].closed = 2

Profiles(config) == DOMAIN config.profiles

MainDictionary(config, i) == config.profiles[i].options.general.mainDictionary

Dictionaries(config, i) == config.profiles[i].options.dictionaries

\* C8: no step of an import changes a main dictionary that is not empty; and
\* the settings write of a file import whose targets all succeed adds the
\* title to every profile and makes it the main dictionary of exactly the
\* profiles whose main dictionary was empty, when the result is sequenced.
C8_MainDictionaryKept ==
    [][/\ event' # "clear:modifyGlobalSettings:resolved"
          => \A i \in Profiles(optionsFull) :
                MainDictionary(optionsFull, i) # ""
                    => MainDictionary(optionsFull', i) = MainDictionary(optionsFull, i)
       /\ \A s \in Slots :
            (/\ event' = "add:modifyGlobalSettings:resolved"
             /\ ops[s].pc = "add:modifyGlobalSettings"
             /\ ops'[s].settingsErrors = <<>>)
                => \A i \in Profiles(optionsFull) :
                      /\ ops[s].result.title \in DOMAIN Dictionaries(optionsFull', i)
                      /\ MainDictionary(optionsFull', i) =
                            IF ops[s].result.sequenced /\ MainDictionary(optionsFull, i) = ""
                            THEN ops[s].result.title
                            ELSE MainDictionary(optionsFull, i)]_vars

\* After sequenced A, a sequenced B has been written with every target
\* succeeding: the profile has both dictionaries and A is still its main one.
C8_Witness ==
    /\ event = "add:modifyGlobalSettings:resolved"
    /\ Profiles(optionsFull) = {0}
    /\ \E s \in Slots :
          /\ ops[s].result = [sequenced |-> TRUE, title |-> "B"]
          /\ ops[s].settingsErrors = <<>>
    /\ DOMAIN Dictionaries(optionsFull, 0) = {"A", "B"}
    /\ MainDictionary(optionsFull, 0) = "A"

\* Whether the add-dictionary builder is to emit a main-dictionary target
\* for profile i, as the claim words it.
WantsMain(config, sequenced, i) == sequenced /\ MainDictionary(config, i) = ""

\* The number of targets the builder is to emit for the profiles before i.
TargetsBefore(config, sequenced, i) ==
    i + Cardinality({j \in 0..(i - 1) : WantsMain(config, sequenced, j)})

\* C9: the targets built for (sequenced, title) are, for each profile index
\* in ascending order, a set of dictionaries[title] to {priority: 0, enabled:
\* true, allowSecondarySearches: false}, directly followed by a set of
\* general.mainDictionary to title exactly when sequenced holds and that
\* profile's main dictionary is empty; nothing else is in the list.
C9_AddDictionaryTargets ==
    \A s \in Slots :
        ops[s].pc = "add:modifyGlobalSettings" =>
            LET targets == ops[s].targets
                sequenced == ops[s].result.sequenced
                title == ops[s].result.title
                P == Cardinality(Profiles(optionsFull))
                mains == {i \in Profiles(optionsFull) : WantsMain(optionsFull, sequenced, i)}
            IN /\ Len(targets) = P + Cardinality(mains)
               /\ ~sequenced => Len(targets) = P
               /\ (sequenced /\ \A i \in Profiles(optionsFull) :
                                   MainDictionary(optionsFull, i) = "")
                     => Len(targets) = 2 * P
               /\ (sequenced /\ \A i \in Profiles(optionsFull) :
                                   MainDictionary(optionsFull, i) # "")
                     => Len(targets) = P
               /\ \A i \in Profiles(optionsFull) :
                     LET k == TargetsBefore(optionsFull, sequenced, i)
                     IN /\ targets[k + 1].action = "set"
                        /\ targets[k + 1].path
                               = <<"profiles", i, "options", "dictionaries", title>>
                        /\ targets[k + 1].value
                               = [priority |-> 0, enabled |-> TRUE,
                                  allowSecondarySearches |-> FALSE]
                        /\ i \in mains =>
                              /\ targets[k + 2].action = "set"
                              /\ targets[k + 2].path
                                     = <<"profiles", i, "options", "general", "mainDictionary">>
                              /\ targets[k + 2].value = title

\* Targets were built for a sequenced result over two profiles of which only
\* the second has an empty main dictionary: three targets.
C9_Witness ==
    \E s \in Slots :
        /\ ops[s].pc = "add:modifyGlobalSettings"
        /\ ops[s].result.sequenced
        /\ Profiles(optionsFull) = {0, 1}
        /\ MainDictionary(optionsFull, 0) # ""
        /\ MainDictionary(optionsFull, 1) = ""
        /\ Len(ops[s].targets) = 3

\* C10: the targets a purge builds are, for each profile index in ascending
\* order, a set of dictionaries to the empty mapping followed by a set of
\* general.mainDictionary to the empty string, 2P in all whatever the
\* configuration holds; and in the state a purge ends in with all its writes
\* done, every profile has no dictionaries and an empty main dictionary.
C10_ClearDictionaryTargets ==
    \A s \in Slots :
        /\ ops[s].pc = "clear:modifyGlobalSettings" =>
              LET targets == ops[s].targets
              IN /\ Len(targets) = 2 * Cardinality(Profiles(optionsFull))
                 /\ \A i \in Profiles(optionsFull) :
                       /\ targets[2 * i + 1].action = "set"
                       /\ targets[2 * i + 1].path
                              = <<"profiles", i, "options", "dictionaries">>
                       /\ targets[2 * i + 1].value = EmptyMapping
                       /\ targets[2 * i + 2].action = "set"
                       /\ targets[2 * i + 2].path
                              = <<"profiles", i, "options", "general", "mainDictionary">>
                       /\ targets[2 * i + 2].value = ""
        /\ (/\ event = "clear:modifyGlobalSettings:resolved"
            /\ ops[s].kind = "purge" /\ ops[s].pc = "done"
            /\ ops[s].settingsErrors = <<>>)
              => \A i \in Profiles(optionsFull) :
                    /\ Dictionaries(optionsFull, i) = EmptyMapping
                    /\ MainDictionary(optionsFull, i) = ""

\* A purge has built its targets over two profiles of which the first holds
\* a dictionary and has a main dictionary.
C10_Witness ==
    \E s \in Slots :
        /\ ops[s].pc = "clear:modifyGlobalSettings"
        /\ Profiles(optionsFull) = {0, 1}
        /\ DOMAIN Dictionaries(optionsFull, 0) = {"A"}
        /\ MainDictionary(optionsFull, 0) = "A"
        /\ Len(ops[s].targets) = 4

\* C11 as stated: every purge or import that passed the busy check ends with
\* a storage-statistics refresh made in its cleanup, after the exit-prevention
\* token is released, whatever path it took (an import of zero files and an
\* import whose importer never reported progress included).
C11_CleanupRefreshesStats ==
    \A s \in Slots :
        ops[s].pc = "done" =>
            \E k \in 1..Len(ops[s].trace) :
                /\ ops[s].trace[k][1] = "updateStats"
                /\ \E j \in 1..(k - 1) : ops[s].trace[j][1] = "prevention.end"

\* C12 as stated: every per-target error the settings transport returned for
\* the last settings write of an activation (the add-dictionary write of the
\* file just imported, the clear write of a purge) is on the error panel,
\* whether or not the importer reported errors of its own.
C12_SettingsErrorsShown ==
    \A s \in Slots :
        \A k \in 1..Len(ops[s].settingsErrors) :
            \E j \in 1..Len(errorContainer.lines) :
                errorContainer.lines[j].text = ErrorToString(ops[s].settingsErrors[k])

Started == {"_purgeDatabase:start", "_importDictionaries:start"}

IsPrefix(a, b) == Len(a) <= Len(b) /\ SubSeq(b, 1, Len(a)) = a

\* C13: the error panel is emptied and hidden by the run of an invocation
\* that passed the busy check and by no other step: every other handler run
\* (a rejected invocation, a settled call between two files, the end of an
\* operation) keeps the lines already shown, in place, and keeps a visible
\* panel visible.
C13_PanelClearedOnlyAtStart ==
    [][IF event' \in Started
       THEN errorContainer' = HideErrors
       ELSE /\ IsPrefix(errorContainer.lines, errorContainer'.lines)
            /\ ~errorContainer.hidden => ~errorContainer'.hidden]_vars

\* The second file of a batch has been imported with errors, the lines of the
\* first file are still above its own, and the batch has finished.
C13_Witness ==
    /\ event = "add:modifyGlobalSettings:resolved"
    /\ ~errorContainer.hidden
    /\ \E s \in Slots :
          /\ ops[s].kind = "import" /\ ops[s].pc = "done"
          /\ Len(ops[s].files) = 2 /\ ops[s].i = 2
          /\ Len(ops[s].errors) > 0
          /\ Len(errorContainer.lines) > Len(Fragment(AllErrors(ops[s].errors, ops[s].settingsErrors)))

\* C14 as stated: no two lines of the error panel carry the same display
\* text, at any point of an operation.
C14_NoTwoLinesSameText ==
    \A j, k \in 1..Len(errorContainer.lines) :
        j # k => errorContainer.lines[j].text # errorContainer.lines[k].text

\* How often a display string occurs among the errors of a list.
Occurrences(errors, text) ==
    Cardinality({k \in 1..Len(errors) : ErrorToString(errors[k]) = text})

\* Where a display string occurs first among the errors of a list.
FirstOccurrence(errors, text) ==
    CHOOSE k \in 1..Len(errors) :
        /\ ErrorToString(errors[k]) = text
        /\ \A j \in 1..(k - 1) : ErrorToString(errors[j]) # text

\* C15: _showErrors applied to a list of errors calls logError once for each
\* element, in order; it shows one line for each distinct display string of
\* the list, the lines ordered by the first occurrence of their strings, and
\* a line carries the "(count)" suffix exactly when its string occurs more
\* than once, the count being the number of occurrences.
C15_ShowErrors ==
    event = "_showErrors" =>
        LET errors == ops[1].errors
            lines == errorContainer.lines
        IN /\ ops[1].trace = [k \in 1..Len(errors) |-> <<"logError", errors[k]>>]
           /\ ~errorContainer.hidden
           /\ \A k \in 1..Len(errors) :
                 \E j \in 1..Len(lines) : lines[j].text = ErrorToString(errors[k])
           /\ \A j \in 1..Len(lines) :
                 /\ Occurrences(errors, lines[j].text) > 0
                 /\ lines[j].em = IF Occurrences(errors, lines[j].text) > 1
                                  THEN Occurrences(errors, lines[j].text) ELSE 0
                 /\ \A k \in (j + 1)..Len(lines) :
                       FirstOccurrence(errors, lines[j].text)
                           < FirstOccurrence(errors, lines[k].text)

\* [E1, E1, E2] was shown: two lines, "(2)" on the first only, three logError
\* calls.
C15_Witness ==
    /\ event = "_showErrors"
    /\ ops[1].errors = <<ErrEntry, ErrEntry, ErrTarget>>
    /\ Len(errorContainer.lines) = 2
    /\ errorContainer.lines[1] = [text |-> ErrEntry, em |-> 2]
    /\ errorContainer.lines[2] = [text |-> ErrTarget, em |-> 0]
    /\ Len(ops[1].trace) = 3

Escaped == {"_purgeDatabase:rejected", "_importDictionaries:rejected"}

BodyFailed ==
    {"purgeDatabase:rejected", "clear:getOptionsFull:rejected",
     "clear:modifyGlobalSettings:rejected", "getOptionsFull:rejected",
     "prepare:rejected", "readFile:rejected", "importDictionary:rejected",
     "add:getOptionsFull:rejected", "add:modifyGlobalSettings:rejected"}

\* C16 as stated: no invocation of purge or import ends with its promise
\* rejected, whichever collaborator failed (the acquisition of the
\* exit-prevention token included), and a failure thrown inside the body
\* is shown as a list of that one error.
C16_NoFailureEscapes ==
    /\ event \notin Escaped
    /\ event \in BodyFailed =>
          \E s \in Slots :
              /\ ops[s].pc = "done" /\ Len(ops[s].caught) = 1
              /\ Len(errorContainer.lines) > 0
              /\ errorContainer.lines[Len(errorContainer.lines)]
                     = [text |-> ErrorToString(ops[s].caught[1]), em |-> 0]

IsLogCall(e) == e[1] = "logError"

\* The errors handed to _showErrors since the last settings write of an
\* activation was issued, in the order they were handed over.
ShownSinceWrite(trace) ==
    LET m == CHOOSE k \in 1..Len(trace) :
                 /\ trace[k][1] = "modifyGlobalSettings"
                 /\ \A j \in (k + 1)..Len(trace) : trace[j][1] # "modifyGlobalSettings"
        calls == SelectSeq(SubSeq(trace, m + 1, Len(trace)), IsLogCall)
    IN [k \in 1..Len(calls) |-> calls[k][2]]

\* The summary error for n reported errors, as the claim words it.
SummaryOf(n) ==
    <<"Error: ",
      "Dictionary may not have been imported properly: " \o ToString(n)
          \o (IF n = 1 THEN " error reported." ELSE " errors reported.")>>

\* C17: when the add-dictionary settings write of a file has resolved, the
\* list displayed for the file is, if the importer reported errors, those
\* errors, then the errors of the settings write, then one summary error
\* counting both (worded "1 error reported." for one, "n errors reported."
\* otherwise), each shown as a line at the end of the panel; if neither the
\* importer nor the settings write reported an error, nothing is displayed.
C17_FileErrorList ==
    event = "add:modifyGlobalSettings:resolved" =>
        \A s \in Slots :
            (ops[s].kind = "import" /\ ops[s].pc \in {"prepare", "done"}) =>
                LET errors == ops[s].errors
                    errors2 == ops[s].settingsErrors
                    shown == ShownSinceWrite(ops[s].trace)
                    lines == errorContainer.lines
                IN /\ Len(errors) > 0 =>
                         /\ shown = Append(errors \o errors2,
                                           SummaryOf(Len(errors) + Len(errors2)))
                         /\ Len(lines) >= Len(shown)
                         /\ \A k \in 1..Len(shown) :
                               lines[Len(lines) - Len(shown) + k]
                                   = [text |-> shown[k], em |-> 0]
                   /\ (Len(errors) = 0 /\ Len(errors2) = 0) =>
                         /\ shown = <<>>
                         /\ ops[s].i = 1 => (lines = <<>> /\ errorContainer.hidden)

\* A file was imported with one importer error and one settings error: the
\* two are shown, followed by the summary for two errors.
C17_Witness ==
    /\ event = "add:modifyGlobalSettings:resolved"
    /\ \E s \in Slots :
          /\ ops[s].kind = "import" /\ ops[s].pc \in {"prepare", "done"}
          /\ ops[s].errors = <<ErrEntry>>
          /\ ops[s].settingsErrors = <<ErrTarget>>
          /\ ShownSinceWrite(ops[s].trace)
                 = <<ErrEntry, ErrTarget,
                     <<"Error: ", "Dictionary may not have been imported properly: 2 errors reported.">>>>
          /\ Len(errorContainer.lines) >= 3

\* The cleanup of an operation has run: token released, indicators and
\* notifications hidden, controls enabled, busy false.
CleanedUp(op) ==
    /\ op.pc = "done"
    /\ Count(op.trace, "prevention.end") = 1
    /\ preventions.released = preventions.acquired
    /\ ~modifying
    /\ ui.spinnerHidden /\ ~ui.disabled
    /\ ui.purgeNotificationHidden /\ ui.progressHidden /\ ui.importInfoHidden

\* C18: a failed transport call ends the steps of the operation and leaves
\* its cleanup to run.  When api.purgeDatabase() rejects, no configuration
\* read or write follows, the panel shows that one error and the cleanup has
\* run.  When the first configuration read of an import rejects, no file is
\* handed on, no store handle is opened, nothing is read or imported and the
\* cleanup has run.  When the purge resolved and the settings clear returned
\* per-target errors, these are the lines of the panel, no failure was
\* caught, the one purge call stands with no further store call after it,
\* and the cleanup has run.
C18_TransportFailureAborts ==
    \A s \in Slots :
        /\ (event = "purgeDatabase:rejected" /\ ops[s].kind = "purge") =>
              /\ ops[s].caught = <<ErrPurge>>
              /\ Count(ops[s].trace, "getOptionsFull") = 0
              /\ Count(ops[s].trace, "modifyGlobalSettings") = 0
              /\ errorContainer = [lines |-> <<[text |-> ErrPurge, em |-> 0]>>,
                                   hidden |-> FALSE]
              /\ CleanedUp(ops[s])
        /\ (event = "getOptionsFull:rejected" /\ ops[s].kind = "import") =>
              /\ ops[s].caught = <<ErrOptions>>
              /\ ops[s].opened = 0
              /\ \A name \in {"_importDictionary", "prepare", "readFile",
                              "importDictionary", "modifyGlobalSettings"} :
                    Count(ops[s].trace, name) = 0
              /\ errorContainer = [lines |-> <<[text |-> ErrOptions, em |-> 0]>>,
                                   hidden |-> FALSE]
              /\ CleanedUp(ops[s])
        /\ (/\ event = "clear:modifyGlobalSettings:resolved"
            /\ ops[s].kind = "purge"
            /\ Len(ops[s].settingsErrors) > 0) =>
              /\ ops[s].caught = <<>>
              /\ Count(ops[s].trace, "purgeDatabase") = 1
              /\ ops[s].trace[2] = <<"purgeDatabase">>
              /\ Len(errorContainer.lines) > 0 /\ ~errorContainer.hidden
              /\ \A k \in 1..Len(ops[s].settingsErrors) :
                    \E j \in 1..Len(errorContainer.lines) :
                        errorContainer.lines[j].text = ops[s].settingsErrors[k]
              /\ CleanedUp(ops[s])

\* The purge of the store was rejected: one line on the panel, no settings
\* call made, busy false again.
C18_Witness ==
    /\ event = "purgeDatabase:rejected"
    /\ ~modifying
    /\ errorContainer.lines = <<[text |-> ErrPurge, em |-> 0]>>
    /\ \E s \in Slots :
          /\ ops[s].kind = "purge" /\ ops[s].pc = "done"
          /\ Count(ops[s].trace, "modifyGlobalSettings") = 0

\* The steps of one _importDictionary call, in the order of the claim; an
\* error display is the logError calls of one _showErrors.
Order ==
    <<"_importDictionary", "prepare", "readFile", "importDictionary",
      "triggerDatabaseUpdated", "getOptionsFull", "modifyGlobalSettings">>

Names(trace, from, to) == [k \in 1..(to - from + 1) |-> trace[from + k - 1][1]]

\* What one _importDictionary call did: its part of the trace up to its
\* close(); for a call that closed nothing, up to what its caller did once
\* the call had thrown (show the error, end the prevention).
Steps(op, segment) ==
    LET from == CHOOSE q \in segment : \A r \in segment : q <= r
        to == CHOOSE q \in segment : \A r \in segment : q >= r
        closes == {q \in segment : op.trace[q][1] = "close"}
        outer == {q \in segment : op.trace[q][1] \in {"logError", "prevention.end"}}
    IN IF closes # {}
       THEN Names(op.trace, from, CHOOSE q \in closes : TRUE)
       ELSE IF outer # {}
            THEN Names(op.trace, from, (CHOOSE q \in outer : \A r \in outer : q <= r) - 1)
            ELSE Names(op.trace, from, to)

IsCallStep(name) == name \notin {"logError", "close"}

InOrder(steps) ==
    LET made == SelectSeq(steps, IsCallStep)
    IN /\ Len(made) <= Len(Order)
       /\ made = SubSeq(Order, 1, Len(made))
       /\ \A k \in 1..Len(steps) :
             /\ steps[k] = "logError" =>
                   /\ \E j \in 1..(k - 1) : steps[j] = "modifyGlobalSettings"
                   /\ \A j \in (k + 1)..Len(steps) : steps[j] \in {"logError", "close"}
             /\ steps[k] = "close" =>
                   /\ k = Len(steps)
                   /\ \E j \in 1..(k - 1) : steps[j] = "readFile"

\* C19: the steps of every _importDictionary call are, in this order: open
\* the store handle, read the file, call the importer, notify that the
\* database was updated (kind "dictionary", reason "import"), update the
\* settings, display the errors, close the handle; a call that fails stops
\* at the failed step and goes on to the close only.  When the importer
\* call has resolved, with or without errors in its result, the
\* notification has been sent and the settings update begun; when it has
\* rejected, the call has made neither.
C19_ImportOneOrder ==
    \A s \in Slots :
        ops[s].kind = "import" =>
            LET calls == Calls(ops[s])
                trace == ops[s].trace
            IN /\ \A p \in calls : InOrder(Steps(ops[s], Segment(ops[s], calls, p)))
               /\ \A q \in 1..Len(trace) :
                     trace[q][1] = "triggerDatabaseUpdated"
                         => trace[q] = <<"triggerDatabaseUpdated", "dictionary", "import">>
               /\ (event = "importDictionary:resolved" /\ s \in InFlight) =>
                     /\ ops[s].pc = "add:getOptionsFull"
                     /\ Len(trace) >= 3
                     /\ Names(trace, Len(trace) - 2, Len(trace))
                            = <<"importDictionary", "triggerDatabaseUpdated", "getOptionsFull">>
               /\ event = "importDictionary:rejected" =>
                     LET last == CHOOSE p \in calls : \A r \in calls : p >= r
                     IN \A q \in last..Len(trace) :
                           trace[q][1] \notin {"triggerDatabaseUpdated", "getOptionsFull",
                                               "modifyGlobalSettings"}

\* One file went through every step: its importer reported an error, the
\* settings write succeeded, the two errors were displayed, the handle closed.
C19_Witness ==
    /\ event = "add:modifyGlobalSettings:resolved"
    /\ \E s \in Slots :
          /\ ops[s].kind = "import" /\ ops[s].pc = "done"
          /\ Len(ops[s].files) = 1
          /\ ops[s].errors = <<ErrEntry>>
          /\ Names(ops[s].trace, 1, Len(ops[s].trace))
                 = <<"preventPageExit", "getOptionsFull", "_importDictionary",
                     "prepare", "readFile", "importDictionary",
                     "triggerDatabaseUpdated", "getOptionsFull",
                     "modifyGlobalSettings", "logError", "logError", "close",
                     "prevention.end">>

\* C20: in every state, each being one in which the controller is idle or
\* suspended at an awaited collaborator call, the import-affecting controls
\* are disabled exactly when busy is true and the spinner is visible exactly
\* when busy is true; in the state an operation finishes in, however it
\* finishes, busy is false, the controls are enabled and the spinner hidden.
C20_UiAgreesWithBusy ==
    /\ ui.disabled = modifying
    /\ ui.spinnerHidden = ~modifying
    /\ \A s \in Slots :
          (ops[s].pc = "done" /\ event \in Finished) =>
              /\ ~modifying /\ ~ui.disabled /\ ui.spinnerHidden

\* An import has finished by the failure of its file read.
C20_Witness ==
    /\ event = "readFile:rejected"
    /\ ~modifying /\ ~ui.disabled /\ ui.spinnerHidden
    /\ \E s \in Slots :
          /\ ops[s].kind = "import" /\ ops[s].pc = "done"
          /\ ops[s].caught = <<ErrRead>>

\* The store handles an activation holds open: opened and not yet closed.
OpenHandles(op) == op.opened - op.closed

\* C21: in every state at most one store handle is open over all
\* activations; an open handle belongs to an import in flight past its
\* prepare(), with busy true; with busy false no handle is open; while the
\* handle of the next file is being prepared every earlier handle of the
\* batch is closed; and no purge is in flight while a handle is open.
C21_HandleExclusive ==
    /\ \A s \in Slots : OpenHandles(ops[s]) \in {0, 1}
    /\ Cardinality({s \in Slots : OpenHandles(ops[s]) > 0}) <= 1
    /\ \A s \in Slots :
          OpenHandles(ops[s]) > 0 =>
              /\ modifying
              /\ ops[s].kind = "import"
              /\ ops[s].pc \in (ImportOneStates \ {"prepare"})
              /\ \A r \in InFlight : ops[r].kind # "purge"
    /\ ~modifying => \A s \in Slots : OpenHandles(ops[s]) = 0
    /\ \A s \in Slots :
          ops[s].pc = "prepare" =>
              /\ ops[s].opened = ops[s].i
              /\ ops[s].closed = ops[s].i

\* The handle of the second file is open, that of the first was closed
\* before, and a purge invoked now is turned away.
C21_Witness ==
    /\ event = "_purgeDatabase:return"
    /\ modifying
    /\ \E s \in Slots :
          /\ ops[s].kind = "import" /\ ops[s].pc = "importDictionary"
          /\ ops[s].i = 1
          /\ ops[s].opened = 2 /\ ops[s].closed = 1

\* C22 as stated: while the Client is disabled its popup is not visible,
\* whatever mouse moves, findTerm / renderTemplate callbacks and
\* enable/disable messages have run, in whatever order.
C22_DisabledPopupHidden == ~client.enabled => client.visibility # "visible"

=============================================================================
